---- MODULE Spec2Model ----
(***************************************************************************)
(* Model of analyze_json.py: the pairing of the flow records of a saved   *)
(* NetFlow export dump into Connections, and the derivation and           *)
(* formatting of a Connection's attributes.                               *)
(*                                                                         *)
(* Representation of Python values:                                       *)
(*  - a flow record (dict) is a TLA+ record; a key is present iff it is   *)
(*    in the record's DOMAIN;                                             *)
(*  - IN_BYTES and ports are Int (kept below 2^31);                       *)
(*  - FIRST_SWITCHED / LAST_SWITCHED are 32-bit unsigned values, which do *)
(*    not fit the model checker's integers: a natural number is written   *)
(*    as four base-1000 limbs, least significant first, and a Python int  *)
(*    as [neg, mag];                                                      *)
(*  - an export key (a JSON object key, hence a str) is the sequence of   *)
(*    its code points;                                                    *)
(*  - a raised exception is the record [raised |-> name].                 *)
(***************************************************************************)
EXTENDS Integers, Sequences, FiniteSets, TLC

\* Program state: the loaded dump, the list the outer loop iterates, the
\* positions of the two loops, the loop variables, the printed lines, and
\* the argument and result of a single call of getIPs.
\* History: pendingAt is where the pending flow came from, built the
\* Connections constructed so far, trace the flow records processed so far.
VARIABLES data, exports, ei, fi, timestamp, pending, con, out, pc,
          pendingAt, built, trace, argFlow, ips

vars == <<data, exports, ei, fi, timestamp, pending, con, out, pc,
          pendingAt, built, trace, argFlow, ips>>

\* Python's None.
None == [none |-> TRUE]

\* The exception raised by a dict lookup of an absent key.
KeyError == [raised |-> "KeyError"]

Raised(r) == "raised" \in DOMAIN r

(***************************************************************************)
(* Python int arithmetic on values beyond 2^31.                            *)
(***************************************************************************)

\* The natural number g3*10^9 + g2*10^6 + g1*10^3 + g0 as limbs.
Big(g3, g2, g1, g0) == <<g0, g1, g2, g3>>

MagLess(a, b) ==
    \E i \in 1..4 : a[i] < b[i] /\ \A j \in (i+1)..4 : a[j] = b[j]

MagAdd(a, b) ==
    LET s1 == a[1] + b[1]
        s2 == a[2] + b[2] + (s1 \div 1000)
        s3 == a[3] + b[3] + (s2 \div 1000)
        s4 == a[4] + b[4] + (s3 \div 1000)
    IN  <<s1 % 1000, s2 % 1000, s3 % 1000, s4>>

\* a - b for a >= b.
MagSub(a, b) ==
    LET d1 == a[1] - b[1]
        b1 == IF d1 < 0 THEN 1 ELSE 0
        d2 == a[2] - b[2] - b1
        b2 == IF d2 < 0 THEN 1 ELSE 0
        d3 == a[3] - b[3] - b2
        b3 == IF d3 < 0 THEN 1 ELSE 0
        d4 == a[4] - b[4] - b3
    IN  <<d1 + 1000 * b1, d2 + 1000 * b2, d3 + 1000 * b3, d4>>

Zero == Big(0, 0, 0, 0)

PyInt(mag) == [neg |-> FALSE, mag |-> mag]

IntNeg(x) == [neg |-> (~x.neg /\ x.mag # Zero), mag |-> x.mag]

\* x + y
IntAdd(x, y) ==
    IF x.neg = y.neg
    THEN [neg |-> x.neg, mag |-> MagAdd(x.mag, y.mag)]
    ELSE IF MagLess(x.mag, y.mag)
         THEN [neg |-> y.neg, mag |-> MagSub(y.mag, x.mag)]
         ELSE [neg |-> (x.neg /\ x.mag # y.mag), mag |-> MagSub(x.mag, y.mag)]

\* x - y
IntSub(x, y) == IntAdd(x, IntNeg(y))

\* x < 0
IntIsNeg(x) == x.neg

\* 2**32
TwoPow32 == PyInt(Big(4, 294, 967, 296))

\* x // 1000 (floor division), as an Int.
FloorDiv1000(x) ==
    LET q == x.mag[2] + 1000 * x.mag[3] + 1000000 * x.mag[4]
    IN  IF ~x.neg THEN q
        ELSE IF x.mag[1] = 0 THEN -q ELSE -(q + 1)

(***************************************************************************)
(* Library and operating-system functions, on the values the model uses.   *)
(***************************************************************************)

\* ipaddress.ip_address(text): the address object, with its compressed text.
AddrTable ==
    [a \in {"0.0.0.0", "::", "10.0.0.1", "10.0.0.2", "192.168.1.10",
            "2001:0DB8:0:0:0:0:0:1", "2001:db8::2", "fe80::1"} |->
        CASE a = "0.0.0.0"      -> [version |-> 4, compressed |-> "0.0.0.0"]
          [] a = "::"           -> [version |-> 6, compressed |-> "::"]
          [] a = "10.0.0.1"     -> [version |-> 4, compressed |-> "10.0.0.1"]
          [] a = "10.0.0.2"     -> [version |-> 4, compressed |-> "10.0.0.2"]
          [] a = "192.168.1.10" -> [version |-> 4, compressed |-> "192.168.1.10"]
          [] a = "2001:0DB8:0:0:0:0:0:1"
                                -> [version |-> 6, compressed |-> "2001:db8::1"]
          [] a = "2001:db8::2"  -> [version |-> 6, compressed |-> "2001:db8::2"]
          [] a = "fe80::1"      -> [version |-> 6, compressed |-> "fe80::1"]]

ip_address(text) == AddrTable[text]

\* The answers of the resolver (socket.gethostbyaddr).
HostTable ==
    [a \in {"10.0.0.1", "2001:db8::1"} |->
        IF a = "10.0.0.1" THEN "gw.example.net" ELSE "www.example.net"]

\* socket.gethostname(): the name of the host the script runs on.
gethostname == "collector"

\* socket.getfqdn(name): an empty name, 0.0.0.0 and :: stand for the local
\* host; the result is the resolved name, or the name itself when the
\* resolver knows nothing about it.
getfqdn(name) ==
    LET n == IF name = "" \/ name \in {"0.0.0.0", "::"}
             THEN gethostname ELSE name
    IN  IF n \in DOMAIN HostTable THEN HostTable[n] ELSE n

OSError == [raised |-> "OSError"]

OverflowError == [raised |-> "OverflowError"]

\* The services database.
ServTable ==
    [p \in {22, 80, 443} |->
        CASE p = 22 -> "ssh" [] p = 80 -> "http" [] p = 443 -> "https"]

\* socket.getservbyport(port): OverflowError for a port outside 0..65535,
\* else the service name, or OSError when the database has none.
getservbyport(port) ==
    IF port < 0 \/ port > 65535 THEN OverflowError
    ELSE IF port \in DOMAIN ServTable THEN [name |-> ServTable[port]]
    ELSE OSError

\* str.upper() on the service names.
Upper(s) ==
    CASE s = "ssh" -> "SSH" [] s = "http" -> "HTTP" [] s = "https" -> "HTTPS"
      [] s = "unknown" -> "UNKNOWN"

(***************************************************************************)
(* getIPs                                                                  *)
(***************************************************************************)

Pair(src, dest) == [src |-> src, dest |-> dest]

\* use_ipv4 decided by the version field alone, without the elif on the
\* IPv4 address fields.
use_ipv4VersionOnly(flow) ==
    "IP_PROTOCOL_VERSION" \in DOMAIN flow /\ flow.IP_PROTOCOL_VERSION = 4

\* The value of use_ipv4 when getIPs reaches `if use_ipv4`.
use_ipv4(flow) ==
    IF "IP_PROTOCOL_VERSION" \in DOMAIN flow /\ flow.IP_PROTOCOL_VERSION = 4
    THEN TRUE
    ELSE IF "IPV4_SRC_ADDR" \in DOMAIN flow \/ "IPV4_DST_ADDR" \in DOMAIN flow
         THEN TRUE
         ELSE FALSE

getIPs(flow) ==
    IF use_ipv4(flow)
    THEN IF {"IPV4_SRC_ADDR", "IPV4_DST_ADDR"} \subseteq DOMAIN flow
         THEN Pair(ip_address(flow.IPV4_SRC_ADDR), ip_address(flow.IPV4_DST_ADDR))
         ELSE KeyError
    ELSE IF {"IPV6_SRC_ADDR", "IPV6_DST_ADDR"} \subseteq DOMAIN flow
         THEN Pair(ip_address(flow.IPV6_SRC_ADDR), ip_address(flow.IPV6_DST_ADDR))
         ELSE KeyError

(***************************************************************************)
(* class Connection                                                        *)
(***************************************************************************)

\* The first flow labelled src whatever the sizes.
SrcFlowFirst(flow1, flow2) == flow1

\* The flow labelled src by Connection.__init__.
SrcFlow(flow1, flow2) ==
    IF flow1.IN_BYTES >= flow2.IN_BYTES THEN flow1 ELSE flow2

\* The duration without the wraparound correction.
DurationNoWrap(src) ==
    IntSub(PyInt(src.LAST_SWITCHED), PyInt(src.FIRST_SWITCHED))

\* The wraparound correction with 2**32 - 1 in place of 2**32.
DurationOffByOne(src) ==
    LET d == IntSub(PyInt(src.LAST_SWITCHED), PyInt(src.FIRST_SWITCHED))
    IN  IF IntIsNeg(d)
        THEN IntAdd(IntSub(PyInt(Big(4, 294, 967, 295)),
                           PyInt(src.FIRST_SWITCHED)),
                    PyInt(src.LAST_SWITCHED))
        ELSE d

\* self.duration after __init__, from the src flow.
Duration(src) ==
    LET d == IntSub(PyInt(src.LAST_SWITCHED), PyInt(src.FIRST_SWITCHED))
    IN  IF IntIsNeg(d)
        THEN IntAdd(IntSub(TwoPow32, PyInt(src.FIRST_SWITCHED)),
                    PyInt(src.LAST_SWITCHED))
        ELSE d

\* Connection(flow1, flow2): the attributes of the constructed object.
Connection(flow1, flow2) ==
    IF ~("IN_BYTES" \in DOMAIN flow1 /\ "IN_BYTES" \in DOMAIN flow2)
    THEN KeyError
    ELSE
    LET src == SrcFlow(flow1, flow2)
        ipp == getIPs(src)
    IN  IF Raised(ipp) \/ ~({"L4_SRC_PORT", "L4_DST_PORT", "LAST_SWITCHED",
                             "FIRST_SWITCHED"} \subseteq DOMAIN src)
        THEN KeyError
        ELSE [src       |-> ipp.src,
              dest      |-> ipp.dest,
              src_port  |-> src.L4_SRC_PORT,
              dest_port |-> src.L4_DST_PORT,
              size      |-> src.IN_BYTES,
              duration  |-> Duration(src)]

\* "%02d" % n
Pad2(n) == IF n < 10 THEN "0" \o ToString(n) ELSE ToString(n)

\* n / d rounded to an integer, ties to even; sticky says that the exact
\* numerator lies strictly between n and n + 1.
RoundHalfEven(n, sticky, d) ==
    LET h == n \div d
        f == n % d
    IN  IF 2 * f > d \/ (2 * f = d /\ (sticky \/ h % 2 = 1)) THEN h + 1 ELSE h

\* rem * 100 / unit rounded to an integer, for unit a power of 1024; the
\* products are kept below 2^31.
Hundredths(rem, unit) ==
    IF unit <= 1048576
    THEN RoundHalfEven(rem * 25, FALSE, unit \div 4)
    ELSE LET lo == (rem % 1024) * 25
         IN  RoundHalfEven((rem \div 1024) * 25 + (lo \div 1024),
                           lo % 1024 # 0, unit \div 4096)

\* "%.2f" % (size / unit) for unit a power of 1024: the quotient is exact in
\* a double and the conversion rounds the exact value to hundredths.
Fixed2(size, unit) ==
    LET whole == size \div unit
        hund  == Hundredths(size % unit, unit)
    IN  IF hund = 100
        THEN ToString(whole + 1) \o ".00"
        ELSE ToString(whole) \o "." \o Pad2(hund)

\* human_size with the first threshold inclusive.
human_sizeInclusive(c) ==
    IF c.size <= 1024 THEN ToString(c.size) \o "B"
    ELSE IF c.size \div 1024 < 1024 THEN Fixed2(c.size, 1024) \o "K"
    ELSE IF c.size \div 1048576 < 1024 THEN Fixed2(c.size, 1048576) \o "M"
    ELSE Fixed2(c.size, 1073741824) \o "G"

\* Connection.human_size
human_size(c) ==
    IF c.size < 1024 THEN ToString(c.size) \o "B"
    ELSE IF c.size \div 1024 < 1024 THEN Fixed2(c.size, 1024) \o "K"
    ELSE IF c.size \div 1048576 < 1024 THEN Fixed2(c.size, 1048576) \o "M"
    ELSE Fixed2(c.size, 1073741824) \o "G"

\* Connection.human_duration
human_duration(c) ==
    LET duration == FloorDiv1000(c.duration)
    IN  IF duration < 60 THEN ToString(duration) \o " sec"
        ELSE IF duration > 60 * 60
        THEN ToString(duration \div 3600) \o ":"
                \o Pad2((duration % 3600) \div 60) \o "."
                \o Pad2(duration % 60) \o " hours"
        ELSE Pad2(duration \div 60) \o ":" \o Pad2(duration % 60) \o " min"

\* Connection.hostnames
hostnames(c) == Pair(getfqdn(c.src.compressed), getfqdn(c.dest.compressed))

\* service trying the receiving peer's port first.
serviceDestFirst(c) ==
    LET s == getservbyport(c.src_port)
        d == getservbyport(c.dest_port)
    IN  IF ~Raised(d) THEN [value |-> d.name]
        ELSE IF d # OSError THEN d
        ELSE IF ~Raised(s) THEN [value |-> s.name]
        ELSE IF s # OSError THEN s
        ELSE [value |-> "unknown"]

\* Connection.service: [value |-> the service], or the exception that
\* leaves the property. Only OSError is caught; the dest port is looked up
\* only after the lookup of the src port raised OSError.
service(c) ==
    LET s == getservbyport(c.src_port)
        d == getservbyport(c.dest_port)
    IN  IF ~Raised(s) THEN [value |-> s.name]
        ELSE IF s # OSError THEN s
        ELSE IF ~Raised(d) THEN [value |-> d.name]
        ELSE IF d # OSError THEN d
        ELSE [value |-> "unknown"]

(***************************************************************************)
(* Export keys: str values, compared and converted as Python does.         *)
(***************************************************************************)

\* a < b on str: lexicographic by code point, a proper prefix first.
StrLess(a, b) ==
    \E i \in 1..(Len(b)) :
        /\ \A j \in 1..(i-1) : j <= Len(a) /\ a[j] = b[j]
        /\ i - 1 <= Len(a)
        /\ (i > Len(a) \/ a[i] < b[i])

\* sorted(keys): the list of the keys in ascending str order.
RECURSIVE sorted(_)
sorted(keys) ==
    IF keys = {} THEN <<>>
    ELSE LET m == CHOOSE x \in keys : \A y \in keys \ {x} : StrLess(x, y)
         IN  <<m>> \o sorted(keys \ {m})

\* The number written by a str of decimal digits.
RECURSIVE DigitsValue(_)
DigitsValue(s) ==
    IF s = <<>> THEN 0
    ELSE DigitsValue(SubSeq(s, 1, Len(s) - 1)) * 10 + (s[Len(s)] - 48)

\* float(text) for a decimal text with at most three digits after the point:
\* the whole seconds and the thousandths.
float(text) ==
    LET dots  == {i \in 1..Len(text) : text[i] = 46}
        dot   == IF dots = {} THEN Len(text) + 1 ELSE CHOOSE i \in dots : TRUE
        frac  == SubSeq(text, dot + 1, Len(text))
        frac3 == SubSeq(frac \o <<48, 48, 48>>, 1, 3)
    IN  [whole  |-> DigitsValue(SubSeq(text, 1, dot - 1)),
         thousandths |-> DigitsValue(frac3)]

\* x < y on the floats above.
FloatLess(x, y) ==
    \/ x.whole < y.whole
    \/ x.whole = y.whole /\ x.thousandths < y.thousandths

\* datetime.fromtimestamp(float(export)).strftime("%Y-%m-%d %H:%M.%S"): the
\* text names a second of local time; it is written here as that second's
\* epoch number, the fraction of the key being dropped.
TimestampText(export) == float(export).whole

(***************************************************************************)
(* The script: load the dump, then the two nested loops.                   *)
(***************************************************************************)

\* `not x` is False exactly for these values of the pending slot.
Truthy(x) == x # None /\ DOMAIN x # {}

\* The arguments of the print call's format, one line of output, or the
\* exception raised while they are evaluated.
Line(ts, c) ==
    IF Raised(service(c)) THEN service(c)
    ELSE
    [timestamp |-> ts,
     service   |-> Upper(service(c).value),
     src_host  |-> hostnames(c).src,
     src       |-> c.src.compressed,
     dest_host |-> hostnames(c).dest,
     dest      |-> c.dest.compressed,
     size      |-> human_size(c),
     duration  |-> human_duration(c)]

\* flows = data[export] of the export being processed.
Flows == data[exports[ei]]

\* The place in the dump of the flow record the inner loop is about to take.
Here == [export |-> exports[ei], index |-> fi + 1]

\* The flow record at a place of the dump.
Rec(at) == data[at.export][at.index]

\* The size filter with >= in place of >.
LargeInclusive(c) == c.size >= 1024 * 1024

\* if con.size > 1024**2
Large(c) == c.size > 1024 * 1024

\* for export in sorted(data): the list is built when the loop starts.
SortExports ==
    /\ pc = "load"
    /\ exports' = sorted(DOMAIN data)
    /\ pc' = "export"
    /\ UNCHANGED <<data, ei, fi, timestamp, pending, con, out, pendingAt,
                   built, trace, argFlow, ips>>

\* The outer iteration without the reset of the pending slot.
NextExportCarry ==
    /\ pc = "export"
    /\ ei < Len(exports)
    /\ ei' = ei + 1
    /\ timestamp' = TimestampText(exports[ei + 1])
    /\ fi' = 0
    /\ pc' = "flow"
    /\ UNCHANGED <<data, exports, pending, pendingAt, con, out, built, trace,
                   argFlow, ips>>

\* One iteration of the outer loop begins: timestamp, flows, pending = None.
NextExport ==
    /\ pc = "export"
    /\ ei < Len(exports)
    /\ ei' = ei + 1
    /\ timestamp' = TimestampText(exports[ei + 1])
    /\ pending' = None
    /\ pendingAt' = None
    /\ fi' = 0
    /\ pc' = "flow"
    /\ UNCHANGED <<data, exports, con, out, built, trace, argFlow, ips>>

\* One iteration of the inner loop with `not pending`: pending = flow.
StorePending ==
    /\ pc = "flow"
    /\ fi < Len(Flows)
    /\ ~Truthy(pending)
    /\ pending' = Flows[fi + 1]
    /\ pendingAt' = Here
    /\ fi' = fi + 1
    /\ trace' = Append(trace, Here)
    /\ UNCHANGED <<data, exports, ei, timestamp, con, out, pc, built,
                   argFlow, ips>>

\* The pairing iteration without the final pending = None.
PairFlowsKeep ==
    /\ pc = "flow"
    /\ fi < Len(Flows)
    /\ Truthy(pending)
    /\ LET c == Connection(pending, Flows[fi + 1])
       IN  /\ ~Raised(c)
           /\ ~(Large(c) /\ Raised(Line(timestamp, c)))
           /\ con' = c
           /\ out' = IF Large(c) THEN Append(out, Line(timestamp, c)) ELSE out
           /\ fi' = fi + 1
           /\ built' = Append(built,
                              [first  |-> pendingAt,
                               second |-> Here,
                               con    |-> c,
                               line   |-> IF Large(c) THEN Len(out) + 1 ELSE 0])
           /\ trace' = Append(trace, Here)
    /\ UNCHANGED <<data, exports, ei, timestamp, pending, pendingAt, pc,
                   argFlow, ips>>

\* One iteration of the inner loop with a pending flow: build the
\* Connection, print it when it is large, clear the slot. An exception
\* ends the script: in the constructor before con is assigned, in the
\* arguments of print after con is assigned and before anything is printed.
PairFlows ==
    /\ pc = "flow"
    /\ fi < Len(Flows)
    /\ Truthy(pending)
    /\ LET c == Connection(pending, Flows[fi + 1])
       IN  IF Raised(c)
           THEN /\ pc' = "raised"
                /\ UNCHANGED <<con, out, pending, fi, pendingAt, built,
                               trace>>
           ELSE IF Large(c) /\ Raised(Line(timestamp, c))
           THEN /\ con' = c
                /\ built' = Append(built,
                                   [first  |-> pendingAt,
                                    second |-> Here,
                                    con    |-> c,
                                    line   |-> 0])
                /\ pc' = "raised"
                /\ UNCHANGED <<out, pending, fi, pendingAt, trace>>
           ELSE /\ con' = c
                /\ out' = IF Large(c)
                          THEN Append(out, Line(timestamp, c))
                          ELSE out
                /\ pending' = None
                /\ pendingAt' = None
                /\ fi' = fi + 1
                /\ built' = Append(built,
                                   [first  |-> pendingAt,
                                    second |-> Here,
                                    con    |-> c,
                                    line   |-> IF Large(c)
                                               THEN Len(out) + 1 ELSE 0])
                /\ trace' = Append(trace, Here)
                /\ pc' = pc
    /\ UNCHANGED <<data, exports, ei, timestamp, argFlow, ips>>

\* The inner loop is exhausted.
EndFlows ==
    /\ pc = "flow"
    /\ fi = Len(Flows)
    /\ pc' = "export"
    /\ UNCHANGED <<data, exports, ei, fi, timestamp, pending, con, out,
                   pendingAt, built, trace, argFlow, ips>>

\* The outer loop is exhausted: the script ends.
Finish ==
    /\ pc = "export"
    /\ ei = Len(exports)
    /\ pc' = "done"
    /\ UNCHANGED <<data, exports, ei, fi, timestamp, pending, con, out,
                   pendingAt, built, trace, argFlow, ips>>

Next == SortExports \/ NextExport \/ StorePending \/ PairFlows \/ EndFlows
        \/ Finish

(***************************************************************************)
(* Input dumps.                                                            *)
(***************************************************************************)

\* A flow record as the collector saves it.
Flow4(bytes, sport, dport, first, last, saddr, daddr) ==
    [IN_BYTES |-> bytes, L4_SRC_PORT |-> sport, L4_DST_PORT |-> dport,
     FIRST_SWITCHED |-> first, LAST_SWITCHED |-> last,
     IPV4_SRC_ADDR |-> saddr, IPV4_DST_ADDR |-> daddr]

Flow6(bytes, sport, dport, first, last, saddr, daddr) ==
    [IN_BYTES |-> bytes, L4_SRC_PORT |-> sport, L4_DST_PORT |-> dport,
     FIRST_SWITCHED |-> first, LAST_SWITCHED |-> last,
     IPV6_SRC_ADDR |-> saddr, IPV6_DST_ADDR |-> daddr]

WithVersion(flow, v) ==
    [k \in DOMAIN flow \cup {"IP_PROTOCOL_VERSION"} |->
        IF k = "IP_PROTOCOL_VERSION" THEN v ELSE flow[k]]

FlowEdge == WithVersion(Flow4(1048576, 50001, 50002, Big(0, 0, 0, 0),
                              Big(0, 0, 60, 0), "10.0.0.2", "192.168.1.10"), 4)

FlowWrap == WithVersion(Flow6(1048577, 50003, 443, Big(4, 294, 967, 290),
                              Big(0, 0, 0, 5), "2001:0DB8:0:0:0:0:0:1",
                              "fe80::1"), 6)

FlowHuge == Flow4(2000000000, 50001, 50002, Big(0, 0, 0, 0),
                  Big(0, 3, 661, 0), "192.168.1.10", "10.0.0.1")

FlowBulk == Flow6(1500000, 80, 22, Big(0, 0, 5, 0), Big(0, 0, 4, 999),
                  "2001:db8::2", "2001:0DB8:0:0:0:0:0:1")

FlowSet == {FlowEdge, FlowWrap, FlowHuge, FlowBulk}

\* "9.5", "10" and "1512345678.25"
KeySet == {<<57, 46, 53>>, <<49, 48>>,
           <<49, 53, 49, 50, 51, 52, 53, 54, 55, 56, 46, 50, 53>>}

\* The dump holds at most MaxExports exports and MaxRecords flow records.
MaxExports == 2

MaxRecords == 4

SeqsUpTo(S, n) == UNION {[1..m -> S] : m \in 0..n}

\* Some enumeration of a set of keys.
RECURSIVE KeyList(_)
KeyList(ks) ==
    IF ks = {} THEN <<>>
    ELSE LET k == CHOOSE x \in ks : TRUE IN <<k>> \o KeyList(ks \ {k})

\* The dump whose exports ks hold the records of s, cut at the places cut.
Dump(ks, s, cut) ==
    LET kl == KeyList(ks)
        lo(i) == IF i = 1 THEN 0 ELSE cut[i - 1]
        hi(i) == IF i = Len(kl) THEN Len(s) ELSE cut[i]
    IN  [k \in ks |->
            LET i == CHOOSE j \in 1..Len(kl) : kl[j] = k
            IN  SubSeq(s, lo(i) + 1, hi(i))]

InitLoop ==
    /\ exports = <<>>
    /\ ei = 0
    /\ fi = 0
    /\ timestamp = None
    /\ pending = None
    /\ con = None
    /\ out = <<>>
    /\ pc = "load"
    /\ pendingAt = None
    /\ built = <<>>
    /\ trace = <<>>
    /\ argFlow = None
    /\ ips = None

\* data is a dump within the bounds whose flow records are in S.
LoadedFrom(S) ==
    \E ks \in SUBSET KeySet :
        /\ Cardinality(ks) <= MaxExports
        /\ \E s \in SeqsUpTo(S, MaxRecords) :
             /\ ks = {} => s = <<>>
             /\ \E cut \in [1..(Cardinality(ks) - 1) -> 0..Len(s)] :
                  /\ \A i \in DOMAIN cut : \A j \in DOMAIN cut :
                       i <= j => cut[i] <= cut[j]
                  /\ data = Dump(ks, s, cut)

\* The state after json.loads: any dump of flow records within the bounds.
Init == LoadedFrom(FlowSet) /\ InitLoop

Spec == Init /\ [][Next]_vars

(***************************************************************************)
(* Dumps that also hold records whose ports are outside 0..65535, which    *)
(* the collector does not write but json.loads accepts.                    *)
(***************************************************************************)

FlowBadSrcPort == Flow4(4000000, 70000, 22, Big(0, 0, 0, 0), Big(0, 0, 2, 0),
                        "10.0.0.1", "10.0.0.2")

FlowBadDestPort == Flow4(5000000, 50001, -1, Big(0, 0, 0, 0),
                         Big(0, 0, 2, 0), "10.0.0.1", "10.0.0.2")

PortFlows == {FlowWrap, FlowHuge, FlowBulk, FlowBadSrcPort, FlowBadDestPort}

InitPorts == LoadedFrom(PortFlows) /\ InitLoop

SpecPorts == InitPorts /\ [][Next]_vars

(***************************************************************************)
(* One export of two flow records, drawn from a wider set of records: the  *)
(* sizes around the thresholds of human_size and of the size filter, the   *)
(* switch times around the thresholds of human_duration and around the     *)
(* 32-bit wraparound, and two distinct records of equal size.              *)
(***************************************************************************)

WideFlows ==
    {Flow4(2048, 50000, 80, Big(0, 0, 1, 0), Big(0, 0, 4, 0),
           "10.0.0.1", "10.0.0.2"),
     Flow4(100, 80, 50000, Big(0, 0, 1, 100), Big(0, 0, 3, 900),
           "10.0.0.2", "10.0.0.1"),
     Flow4(500, 22, 50001, Big(0, 0, 0, 0), Big(0, 0, 0, 999),
           "192.168.1.10", "10.0.0.1"),
     Flow4(1500, 50001, 22, Big(0, 0, 0, 0), Big(0, 0, 59, 999),
           "10.0.0.1", "192.168.1.10"),
     Flow6(1500, 443, 50002, Big(0, 0, 0, 0), Big(0, 0, 60, 0),
           "fe80::1", "2001:db8::2"),
     WithVersion(Flow4(1023, 50002, 50003, Big(0, 0, 0, 7), Big(0, 0, 61, 7),
                       "10.0.0.2", "192.168.1.10"), 4),
     Flow4(1024, 50002, 50003, Big(0, 0, 0, 0), Big(0, 3, 600, 0),
           "10.0.0.2", "192.168.1.10"),
     Flow4(1152, 50002, 50003, Big(0, 0, 0, 0), Big(0, 3, 600, 999),
           "10.0.0.2", "192.168.1.10"),
     Flow4(1408, 50002, 50003, Big(4, 294, 967, 295), Big(4, 294, 967, 295),
           "10.0.0.2", "192.168.1.10"),
     WithVersion(Flow4(1048575, 50002, 50003, Big(0, 0, 0, 0),
                       Big(0, 3, 601, 0), "10.0.0.2", "192.168.1.10"), 6),
     FlowEdge, FlowWrap, FlowBulk,
     Flow6(1073741823, 50002, 50003, Big(0, 0, 0, 0), Big(4, 294, 967, 295),
           "2001:db8::2", "fe80::1"),
     Flow4(1073741824, 50002, 50003, Big(4, 294, 967, 295), Big(0, 0, 0, 0),
           "10.0.0.2", "192.168.1.10"),
     Flow4(2000000000, 50001, 50002, Big(0, 0, 0, 5), Big(0, 0, 0, 4),
           "192.168.1.10", "10.0.0.1"),
     \* the unspecified addresses
     Flow4(3000000, 50001, 50002, Big(0, 0, 0, 0), Big(0, 0, 2, 0),
           "0.0.0.0", "10.0.0.2"),
     Flow6(3000000, 50001, 50002, Big(0, 0, 0, 0), Big(0, 0, 2, 0),
           "fe80::1", "::"),
     \* ports outside 0..65535, as a dump not written by the collector may
     \* hold them
     FlowBadSrcPort, FlowBadDestPort,
     Flow4(6000000, 22, 65536, Big(0, 0, 0, 0), Big(0, 0, 2, 0),
           "10.0.0.1", "10.0.0.2")}

InitWide ==
    /\ \E f1 \in WideFlows : \E f2 \in WideFlows :
         data = [k \in {<<49, 48>>} |-> <<f1, f2>>]
    /\ InitLoop

SpecWide == InitWide /\ [][Next]_vars

(***************************************************************************)
(* A single call of getIPs, on records with any subset of the keys it      *)
(* looks at.                                                               *)
(***************************************************************************)

\* The record with key k, or the empty record when v is the absent mark.
Opt(k, v, absent) == IF v = absent THEN <<>> ELSE k :> v

GetIPsFlows ==
    {Opt("IP_PROTOCOL_VERSION", v, 0)
       @@ Opt("IPV4_SRC_ADDR", a, "") @@ Opt("IPV4_DST_ADDR", b, "")
       @@ Opt("IPV6_SRC_ADDR", c, "") @@ Opt("IPV6_DST_ADDR", d, "") :
     v \in {0, 4, 6},
     a \in {"", "10.0.0.1"}, b \in {"", "10.0.0.2", "192.168.1.10"},
     c \in {"", "2001:0DB8:0:0:0:0:0:1"}, d \in {"", "fe80::1"}}

\* ips = getIPs(argFlow)
CallGetIPs ==
    /\ pc = "call"
    /\ ips' = getIPs(argFlow)
    /\ pc' = "return"
    /\ UNCHANGED <<data, exports, ei, fi, timestamp, pending, con, out,
                   pendingAt, built, trace, argFlow>>

InitIPs ==
    /\ data = <<>>
    /\ exports = <<>>
    /\ ei = 0
    /\ fi = 0
    /\ timestamp = None
    /\ pending = None
    /\ con = None
    /\ out = <<>>
    /\ pc = "call"
    /\ pendingAt = None
    /\ built = <<>>
    /\ trace = <<>>
    /\ argFlow \in GetIPsFlows
    /\ ips = None

NextIPs == CallGetIPs

SpecIPs == InitIPs /\ [][NextIPs]_vars

(***************************************************************************)
(* Properties.                                                             *)
(***************************************************************************)

\* The export at position i of the list has been processed to its end.
ExportDone(i) == i < ei \/ (i = ei /\ pc \in {"export", "done"})

\* The Connections built from the records of export e, in order.
BuiltIn(e) == SelectSeq(built, LAMBDA b : b.second.export = e)

At(e, i) == [export |-> e, index |-> i]

\* C1: within one export the pairing loop is the automaton Empty ->
\* HoldingOne -> Emit&Reset: after fi records of the export, fi \div 2
\* Connections have been built from it, and the pending slot is empty when fi
\* is even and holds record fi when fi is odd; an export of n records yields
\* n \div 2 Connections, the k-th built from its records 2k-1 and 2k, and no
\* flow record is used by two Connections.
C1_PairingAutomaton ==
    /\ pc = "flow" =>
         /\ Len(BuiltIn(exports[ei])) = fi \div 2
         /\ fi % 2 = 0 => pending = None
         /\ fi % 2 = 1 => pending = Flows[fi]
    /\ \A i \in 1..Len(exports) :
         ExportDone(i) =>
            Len(BuiltIn(exports[i])) = Len(data[exports[i]]) \div 2
    /\ \A e \in DOMAIN data : \A k \in 1..Len(BuiltIn(e)) :
         LET b == BuiltIn(e)[k]
         IN  /\ b.first = At(e, 2 * k - 1)
             /\ b.second = At(e, 2 * k)
             /\ b.con = Connection(data[e][2 * k - 1], data[e][2 * k])
    /\ \A i \in 1..Len(built) : \A j \in 1..Len(built) :
         i # j => {built[i].first, built[i].second}
                    \cap {built[j].first, built[j].second} = {}

\* An export of four records has been processed and gave two Connections.
C1_Witness ==
    /\ pc = "done"
    /\ \E e \in DOMAIN data :
         /\ Len(data[e]) = 4
         /\ Len(BuiltIn(e)) = 2
         /\ BuiltIn(e)[2].first = At(e, 3)

\* C2: the pending slot is empty when the processing of an export starts;
\* the two records of every Connection belong to the same export, and the
\* last record of an export with an odd number of records is in no
\* Connection.
C2_NoCrossExportPairing ==
    /\ (pc = "flow" /\ fi = 0) => pending = None
    /\ \A k \in 1..Len(built) :
         /\ built[k].first # None
         /\ built[k].first.export = built[k].second.export
    /\ \A i \in 1..Len(exports) :
         LET e == exports[i]
             n == Len(data[e])
         IN  (ExportDone(i) /\ n % 2 = 1) =>
                \A k \in 1..Len(built) :
                    built[k].first # At(e, n) /\ built[k].second # At(e, n)

\* An export with an odd number of records was followed by an export from
\* which a Connection was built.
C2_Witness ==
    /\ pc = "done"
    /\ Len(exports) = 2
    /\ Len(data[exports[1]]) % 2 = 1
    /\ Len(BuiltIn(exports[2])) >= 1

\* C3: for two flow records with different IN_BYTES the Connection is the
\* same in both argument orders; its addresses, ports, size and duration
\* are those of the record with the larger IN_BYTES, and its size is the
\* larger IN_BYTES.
C3_DirectionIndependent ==
    \A k \in 1..Len(built) :
        LET f1 == Rec(built[k].first)
            f2 == Rec(built[k].second)
            c  == built[k].con
            larger == IF f1.IN_BYTES > f2.IN_BYTES THEN f1 ELSE f2
        IN  f1.IN_BYTES # f2.IN_BYTES =>
              /\ c = Connection(f2, f1)
              /\ c.size = larger.IN_BYTES
              /\ c.size >= f1.IN_BYTES /\ c.size >= f2.IN_BYTES
              /\ c.src = getIPs(larger).src
              /\ c.dest = getIPs(larger).dest
              /\ c.src_port = larger.L4_SRC_PORT
              /\ c.dest_port = larger.L4_DST_PORT
              /\ c.duration = Duration(larger)

\* The 500-byte record arrived first, the 1500-byte record second, and the
\* Connection has the size and the source address of the second.
C3_Witness ==
    \E k \in 1..Len(built) :
        /\ Rec(built[k].first).IN_BYTES = 500
        /\ Rec(built[k].second).IN_BYTES = 1500
        /\ built[k].con.size = 1500
        /\ built[k].con.src = getIPs(Rec(built[k].second)).src

\* C4: every constructed Connection has 0 <= duration < 2^32 (the switch
\* times of all records being 32-bit unsigned values).
C4_DurationInRange ==
    \A k \in 1..Len(built) :
        /\ ~IntIsNeg(built[k].con.duration)
        /\ MagLess(built[k].con.duration.mag, TwoPow32.mag)

\* A Connection whose source record has LAST_SWITCHED = FIRST_SWITCHED - 1:
\* its duration is 2^32 - 1.
C4_Witness ==
    \E k \in 1..Len(built) :
        /\ Rec(built[k].second).FIRST_SWITCHED = Big(0, 0, 0, 5)
        /\ Rec(built[k].second).LAST_SWITCHED = Big(0, 0, 0, 4)
        /\ built[k].con.size = Rec(built[k].second).IN_BYTES
        /\ built[k].con.duration = PyInt(Big(4, 294, 967, 295))

\* The record a Connection takes its attributes from.
Dominant(b) ==
    IF Rec(b.first).IN_BYTES >= Rec(b.second).IN_BYTES
    THEN Rec(b.first) ELSE Rec(b.second)

\* C5: the duration is LAST_SWITCHED - FIRST_SWITCHED of the source record
\* when that is not negative and 2^32 less the shortfall otherwise, that is
\* (LAST_SWITCHED - FIRST_SWITCHED) mod 2^32; FIRST_SWITCHED 4294967290 and
\* LAST_SWITCHED 5 give 11.
C5_DurationModulo ==
    \A k \in 1..Len(built) :
        LET first == Dominant(built[k]).FIRST_SWITCHED
            last  == Dominant(built[k]).LAST_SWITCHED
            d     == built[k].con.duration
        IN  /\ ~MagLess(last, first) => d = PyInt(MagSub(last, first))
            /\ MagLess(last, first) =>
                 d = PyInt(MagSub(TwoPow32.mag, MagSub(first, last)))
            /\ (first = Big(4, 294, 967, 290) /\ last = Big(0, 0, 0, 5)) =>
                 d = PyInt(Big(0, 0, 0, 11))

\* A Connection from the record with FIRST_SWITCHED 4294967290 and
\* LAST_SWITCHED 5 has duration 11.
C5_Witness ==
    \E k \in 1..Len(built) :
        /\ Dominant(built[k]).FIRST_SWITCHED = Big(4, 294, 967, 290)
        /\ Dominant(built[k]).LAST_SWITCHED = Big(0, 0, 0, 5)
        /\ built[k].con.duration = PyInt(Big(0, 0, 0, 11))

\* The pair of the address objects of two fields of a record; the lookup of
\* an absent field raises KeyError.
FieldPair(flow, s, d) ==
    IF s \in DOMAIN flow /\ d \in DOMAIN flow
    THEN Pair(ip_address(flow[s]), ip_address(flow[d]))
    ELSE KeyError

\* C6: getIPs takes the IPv4 fields exactly when IP_PROTOCOL_VERSION is
\* present and 4, or IPV4_SRC_ADDR or IPV4_DST_ADDR is present, and the IPv6
\* fields in every other case; the result is the pair of the two fields of
\* that family.
C6_VersionDisambiguation ==
    pc = "return" =>
        LET v4 == \/ ("IP_PROTOCOL_VERSION" \in DOMAIN argFlow
                        /\ argFlow.IP_PROTOCOL_VERSION = 4)
                  \/ "IPV4_SRC_ADDR" \in DOMAIN argFlow
                  \/ "IPV4_DST_ADDR" \in DOMAIN argFlow
        IN  /\ v4 => ips = FieldPair(argFlow, "IPV4_SRC_ADDR", "IPV4_DST_ADDR")
            /\ ~v4 => ips = FieldPair(argFlow, "IPV6_SRC_ADDR", "IPV6_DST_ADDR")

\* A record with the IPv4 address fields, the IPv6 address fields and no
\* IP_PROTOCOL_VERSION: the IPv4 pair is returned.
C6_Witness ==
    /\ pc = "return"
    /\ DOMAIN argFlow = {"IPV4_SRC_ADDR", "IPV4_DST_ADDR",
                         "IPV6_SRC_ADDR", "IPV6_DST_ADDR"}
    /\ ~Raised(ips)
    /\ ips.src.version = 4
    /\ ips.dest.version = 4

\* Every flow record of the dump has been processed.
AllProcessed ==
    \A e \in DOMAIN data : \A i \in 1..Len(data[e]) :
        \E t \in 1..Len(trace) : trace[t] = At(e, i)

\* Both port lookups of a Connection fail.
NoService(c) ==
    getservbyport(c.src_port) = OSError /\ getservbyport(c.dest_port) = OSError

\* The lookups of Connection.service meet a port outside 0..65535: the src
\* port, or the dest port after the services database had nothing for the
\* src port.
BadPortLookup(c) ==
    LET bad(p) == p < 0 \/ p > 65535
    IN  \/ bad(c.src_port)
        \/ (~bad(c.src_port) /\ c.src_port \notin DOMAIN ServTable
              /\ bad(c.dest_port))

\* C7 as claimed: no lookup that finds no service stops the script (it
\* stops in the lookup only on a port outside 0..65535), every record is
\* processed, and a printed Connection whose two port lookups fail shows a
\* port number as service.
C7_NumericFallback ==
    /\ pc = "raised" => BadPortLookup(con)
    /\ pc = "done" => AllProcessed
    /\ \A k \in 1..Len(built) :
         (built[k].line # 0 /\ NoService(built[k].con)) =>
            out[built[k].line].service
                \in {ToString(built[k].con.src_port),
                     ToString(built[k].con.dest_port)}

\* C7, amended: a lookup that finds no service (OSError) never stops the
\* script: the printed service is the upper-cased service of the src port
\* when the database has one, else that of the dest port when the database
\* has one, else the fixed text "unknown", and every record of every export
\* is processed. The script stops in the lookup only when it meets a port
\* outside 0..65535 while printing a large Connection (OverflowError, which
\* is not caught), and then it does stop, before the line is printed.
C7_UnknownFallback ==
    /\ pc = "raised" =>
         /\ Len(built) > 0
         /\ con = built[Len(built)].con
         /\ con.size > 1048576
         /\ BadPortLookup(con)
    /\ pc = "done" => AllProcessed
    /\ \A k \in 1..Len(built) :
         LET c == built[k].con
         IN  /\ (c.size > 1048576 /\ BadPortLookup(c)) =>
                  (pc = "raised" /\ k = Len(built) /\ built[k].line = 0)
             /\ built[k].line # 0 =>
                  out[built[k].line].service =
                     IF c.src_port \in DOMAIN ServTable
                     THEN Upper(ServTable[c.src_port])
                     ELSE IF c.dest_port \in DOMAIN ServTable
                          THEN Upper(ServTable[c.dest_port])
                          ELSE "UNKNOWN"

\* A Connection whose port lookups both failed was printed with the service
\* UNKNOWN, and a Connection of a later export was built after it.
C7_Witness ==
    /\ pc = "done"
    /\ \E k \in 1..Len(built) : \E m \in 1..Len(built) :
         /\ built[k].line # 0
         /\ NoService(built[k].con)
         /\ out[built[k].line].service = "UNKNOWN"
         /\ k < m
         /\ built[k].second.export # built[m].second.export

\* The whole seconds of a Connection's duration.
Seconds(c) ==
    c.duration.mag[2] + 1000 * c.duration.mag[3] + 1000000 * c.duration.mag[4]

\* human_size of the sizes of WideFlows, as the script prints them.
SizeText(size) ==
    CASE size = 100 -> "100B" [] size = 500 -> "500B" [] size = 1023 -> "1023B"
      [] size = 1024 -> "1.00K" [] size = 1152 -> "1.12K"
      [] size = 1408 -> "1.38K" [] size = 1500 -> "1.46K"
      [] size = 2048 -> "2.00K" [] size = 1048575 -> "1024.00K"
      [] size = 1048576 -> "1.00M" [] size = 1048577 -> "1.00M"
      [] size = 1500000 -> "1.43M" [] size = 1073741823 -> "1024.00M"
      [] size = 1073741824 -> "1.00G" [] size = 2000000000 -> "1.86G"
      [] size = 3000000 -> "2.86M" [] size = 4000000 -> "3.81M"
      [] size = 5000000 -> "4.77M" [] size = 6000000 -> "5.72M"

\* C8: human_duration gives the whole seconds of the duration with the unit
\* sec below 60 s, the min form from 60 s to one hour and the hours form
\* above one hour; human_size gives the B form below 1024, the K form below
\* 1024^2, the M form below 1024^3 and the G form from there. Two records of
\* one export with IN_BYTES 2048 and 100, the larger with FIRST_SWITCHED 1000
\* and LAST_SWITCHED 4000, give one Connection of size 2048 and duration
\* 3000, with human_size "2.00K" and human_duration "3 sec".
C8_EndToEndFormatting ==
    \A k \in 1..Len(built) :
        LET c == built[k].con
            f == Dominant(built[k])
            secs == Seconds(c)
        IN  /\ human_size(c) = SizeText(c.size)
            /\ c.size < 1024 => human_size(c) = ToString(c.size) \o "B"
            /\ human_duration(c) =
                 IF secs < 60 THEN ToString(secs) \o " sec"
                 ELSE IF secs <= 3600
                      THEN Pad2(secs \div 60) \o ":" \o Pad2(secs % 60)
                              \o " min"
                      ELSE ToString(secs \div 3600) \o ":"
                              \o Pad2((secs \div 60) % 60) \o "."
                              \o Pad2(secs % 60) \o " hours"
            /\ ({Rec(built[k].first).IN_BYTES, Rec(built[k].second).IN_BYTES}
                    = {2048, 100}
                /\ f.FIRST_SWITCHED = Big(0, 0, 1, 0)
                /\ f.LAST_SWITCHED = Big(0, 0, 4, 0)) =>
                 /\ c.size = 2048
                 /\ c.duration = PyInt(Big(0, 0, 3, 0))
                 /\ human_size(c) = "2.00K"
                 /\ human_duration(c) = "3 sec"
                 /\ Len(built) = 1

\* The export of the 2048-byte and the 100-byte record has been processed:
\* one Connection, "2.00K", "3 sec".
C8_Witness ==
    /\ pc = "done"
    /\ Len(built) = 1
    /\ Rec(built[1].first).IN_BYTES = 2048
    /\ Rec(built[1].second).IN_BYTES = 100
    /\ human_size(con) = "2.00K"
    /\ human_duration(con) = "3 sec"

\* C9 as claimed: no flow record of an export is processed after a flow
\* record of an export with a numerically greater key.
C9_NumericOrder ==
    \A i \in 1..Len(trace) : \A j \in 1..Len(trace) :
        i < j => ~FloatLess(float(trace[j].export), float(trace[i].export))

\* The number of Connections among the first k that pass the size filter.
LargeUpTo(k) ==
    Cardinality({j \in 1..k : built[j].con.size > 1048576})

\* C10: a Connection is printed exactly when its size exceeds 1024^2; the
\* lines are one per such Connection, in the order of construction, and
\* show that Connection; after a Connection is constructed the pending slot
\* is empty.
C10_SizeFilter ==
    /\ Len(out) = LargeUpTo(Len(built))
    /\ \A k \in 1..Len(built) :
         LET c == built[k].con
         IN  /\ built[k].line # 0 <=> c.size > 1048576
             /\ built[k].line # 0 =>
                  /\ built[k].line = LargeUpTo(k)
                  /\ out[built[k].line].src = c.src.compressed
                  /\ out[built[k].line].dest = c.dest.compressed
                  /\ out[built[k].line].size = human_size(c)
                  /\ out[built[k].line].timestamp
                        = float(built[k].second.export).whole
    /\ (pc = "flow" /\ Len(built) > 0 /\ Len(trace) > 0
          /\ trace[Len(trace)] = built[Len(built)].second) => pending = None

\* A Connection of exactly 1024^2 bytes was built and not printed, and a
\* larger one was built after it and printed.
C10_Witness ==
    \E k \in 1..Len(built) : \E m \in 1..Len(built) :
        /\ built[k].con.size = 1048576
        /\ built[k].line = 0
        /\ k < m
        /\ built[m].line = 1
        /\ Len(out) = 1

====
